---- MODULE Spec2Model ----
(***************************************************************************)
(* A model of mediagoblin/db/models.py: the User, MediaEntry and           *)
(* MediaComment documents, the store they are saved to, and the accessor   *)
(* methods of MediaEntry and MediaComment.                                 *)
(*                                                                         *)
(* Strings the code computes with (titles, slugs, stringified ids) are     *)
(* sequences of one-character strings, so that slugify and the "%s-%s"     *)
(* formatting are computed and not assumed.                                *)
(***************************************************************************)
EXTENDS Integers, Sequences, FiniteSets, TLC

VARIABLES users, obj, db, comments, media_map, fetch_order, last

vars == <<users, obj, db, comments, media_map, fetch_order, last>>

\* ------------------------------------------------------------------ bounds
MaxUsers == 2
MaxEntries == 2
MaxNavEntries == 3
MaxComments == 3
MaxRefComments == 2
MaxTime == 2
MaxOrder == 3

UserIds == 1..MaxUsers
EntryIds == 1..MaxEntries
NavEntryIds == 1..MaxNavEntries
CommentIds == 1..MaxComments
RefCommentIds == 1..MaxRefComments
Times == 1..MaxTime

\* Titles a caller may give an entry: two that differ only in case, one whose
\* slug is what entry 2's disambiguated slug looks like, one of punctuation only.
Titles == {<<"A">>, <<"a">>, <<"2", "-", "A">>, <<"!">>}
UrlTitles == {<<"A">>, <<"!">>}
PlainTitle == <<"A">>

Labels == {"large", "medium", "original", "thumb"}

\* ----------------------------------------------------------------- strings
DigitChar == <<"1", "2", "3", "4", "5", "6", "7", "8", "9">>

\* unicode(self['_id'])
unicode(id) == <<DigitChar[id]>>

\* "%s-%s" % (a, b)
Format(a, b) == a \o <<"-">> \o b

Lower(c) == IF c = "A" THEN "a" ELSE IF c = "B" THEN "b" ELSE c

Punct == {" ", "-", "!", "_"}

RECURSIVE SlugWalk(_, _, _, _)
SlugWalk(text, i, acc, pending) ==
    IF i > Len(text) THEN acc
    ELSE LET c == Lower(text[i]) IN
         IF c \in Punct
         THEN SlugWalk(text, i + 1, acc, acc # <<>>)
         ELSE SlugWalk(text, i + 1,
                       (IF pending THEN acc \o <<"-">> ELSE acc) \o <<c>>, FALSE)

\* util.slugify: lowercase, split on punctuation, join the words with "-"
slugify(text) == SlugWalk(text, 1, <<>>, FALSE)

UserName(u) == <<"u">> \o unicode(u)

\* ------------------------------------------------------------------ results
NoCall ==
    [op |-> "none", self |-> 0, kind |-> "none", user |-> <<>>, label |-> "",
     media |-> <<>>, target |-> 0, rows |-> <<>>]

Call(op, self) == [NoCall EXCEPT !.op = op, !.self = self]

\* ---------------------------------------------------------------- documents
NewDoc(u, t) ==
    [uploader |-> u, title |-> t, hasSlug |-> FALSE, slug |-> <<>>,
     state |-> "unprocessed"]


\* The store with the document of entry e added or replaced (Document.save).
Stored(store, e, doc) == [x \in DOMAIN store \cup {e} |-> IF x = e THEN doc ELSE store[x]]

\* The store without the record e (Document.delete).
Removed(store, e) == [x \in DOMAIN store \ {e} |-> store[x]]

\* media_entries.find({'slug': slug}): the ids of the stored entries with that slug
FindSlug(store, slug) == {d \in DOMAIN store : store[d].hasSlug /\ store[d].slug = slug}

\* A plausible slip: the duplicate is looked up but the slug is left as it is.
GenerateSlugNoPrefix(doc, e, store) ==
    LET slug == slugify(doc.title)
        duplicate == FindSlug(store, slug) # {}
    IN  [doc EXCEPT !.hasSlug = TRUE,
                    !.slug = IF duplicate THEN slug ELSE slug]

\* MediaEntry.generate_slug on the document doc of entry e, against the store
GenerateSlugDoc(doc, e, store) ==
    LET slug == slugify(doc.title)
        duplicate == FindSlug(store, slug) # {}
    IN  [doc EXCEPT !.hasSlug = TRUE,
                    !.slug = IF duplicate THEN Format(unicode(e), slug) ELSE slug]

\* User.find_one({'_id': id})
FindUser(id) ==
    IF id \in users
    THEN [found |-> TRUE, _id |-> id, username |-> UserName(id)]
    ELSE [found |-> FALSE, _id |-> 0, username |-> <<>>]

\* MediaEntry.uploader
uploader(e) == FindUser(obj[e].uploader)

\* ------------------------------------------------- callers: store mutations
\* A caller builds a MediaEntry with a fresh _id, the requesting user and a title.
NewEntry(e, u, t) ==
    /\ e \notin DOMAIN obj
    /\ u \in users
    /\ obj' = Stored(obj, e, NewDoc(u, t))
    /\ last' = NoCall
    /\ UNCHANGED <<users, db, comments, media_map, fetch_order>>

generate_slug(e) ==
    /\ e \in DOMAIN obj
    /\ obj' = [obj EXCEPT ![e] = GenerateSlugDoc(obj[e], e, db)]
    /\ last' = Call("generate_slug", e)
    /\ UNCHANGED <<users, db, comments, media_map, fetch_order>>

\* entry.save(validate=True): 'slug' is a required field
Save(e) ==
    /\ e \in DOMAIN obj
    /\ obj[e].hasSlug
    /\ db' = Stored(db, e, obj[e])
    /\ last' = NoCall
    /\ UNCHANGED <<users, obj, comments, media_map, fetch_order>>

\* The submission of an entry in one request: build, generate_slug, save.
SubmitEntry(e, u, t) ==
    /\ e \notin DOMAIN obj
    /\ u \in users
    /\ LET doc == GenerateSlugDoc(NewDoc(u, t), e, db) IN
         /\ obj' = Stored(obj, e, doc)
         /\ db' = Stored(db, e, doc)
    /\ last' = NoCall
    /\ UNCHANGED <<users, comments, media_map, fetch_order>>

\* The processing pipeline loads the stored entry, marks it processed, saves it.
Process(e) ==
    /\ e \in DOMAIN db
    /\ db[e].state = "unprocessed"
    /\ LET doc == [db[e] EXCEPT !.state = "processed"] IN
         /\ obj' = Stored(obj, e, doc)
         /\ db' = Stored(db, e, doc)
    /\ last' = NoCall
    /\ UNCHANGED <<users, comments, media_map, fetch_order>>

\* A plausible slip: deleting an entry also deletes the comments that refer to it.
DeleteEntryCascade(e) ==
    /\ e \in DOMAIN db
    /\ db' = Removed(db, e)
    /\ obj' = Removed(obj, e)
    /\ comments' = [c \in {x \in DOMAIN comments : comments[x].media_entry # e}
                      |-> comments[c]]
    /\ last' = NoCall
    /\ UNCHANGED <<users, media_map, fetch_order>>

\* Deleting a stored entry, whose object is dropped with it: no code of the
\* models touches the comments.
DeleteEntry(e) ==
    /\ e \in DOMAIN db
    /\ db' = Removed(db, e)
    /\ obj' = Removed(obj, e)
    /\ last' = NoCall
    /\ UNCHANGED <<users, comments, media_map, fetch_order>>

DeleteUser(u) ==
    /\ u \in users
    /\ users' = users \ {u}
    /\ last' = NoCall
    /\ UNCHANGED <<obj, db, comments, media_map, fetch_order>>

AddComment(c, e, a, t) ==
    /\ c \notin DOMAIN comments
    /\ e \in DOMAIN db
    /\ a \in users
    /\ comments' = Stored(comments, c, [media_entry |-> e, author |-> a, created |-> t])
    /\ last' = NoCall
    /\ UNCHANGED <<users, obj, db, media_map, fetch_order>>

RemoveComment(c) ==
    /\ c \in DOMAIN comments
    /\ comments' = Removed(comments, c)
    /\ last' = NoCall
    /\ UNCHANGED <<users, obj, db, media_map, fetch_order>>


\* ------------------------------------------------------------------ cursors
RECURSIVE SortAsc(_)
SortAsc(S) ==
    IF S = {} THEN <<>>
    ELSE LET m == CHOOSE x \in S : \A y \in S : x <= y IN <<m>> \o SortAsc(S \ {m})

RECURSIVE SortDesc(_)
SortDesc(S) ==
    IF S = {} THEN <<>>
    ELSE LET m == CHOOSE x \in S : \A y \in S : x >= y IN <<m>> \o SortDesc(S \ {m})

\* cursor.limit(n)
Limit(seq, n) == SubSeq(seq, 1, IF Len(seq) < n THEN Len(seq) ELSE n)

\* A plausible slip: the sort direction of url_to_prev is that of url_to_next.
PrevCursorDesc(e) ==
    Limit(SortDesc({d \in DOMAIN db : /\ d > e
                                      /\ db[d].uploader = obj[e].uploader
                                      /\ db[d].state = "processed"}), 1)

\* url_to_prev's query: find({_id: {$gt: self._id}, uploader, state}).sort(_id, ASCENDING).limit(1)
PrevCursor(e) ==
    Limit(SortAsc({d \in DOMAIN db : /\ d > e
                                     /\ db[d].uploader = obj[e].uploader
                                     /\ db[d].state = "processed"}), 1)

\* A plausible slip: url_to_next's query forgets the state filter.
NextCursorAnyState(e) ==
    Limit(SortDesc({d \in DOMAIN db : /\ d < e
                                      /\ db[d].uploader = obj[e].uploader}), 1)

\* url_to_next's query: find({_id: {$lt: self._id}, uploader, state}).sort(_id, DESCENDING).limit(1)
NextCursor(e) ==
    Limit(SortDesc({d \in DOMAIN db : /\ d < e
                                      /\ db[d].uploader = obj[e].uploader
                                      /\ db[d].state = "processed"}), 1)

\* The orders sort('created', DESCENDING) may give the comments S: comments of
\* equal timestamp come in any order.
RECURSIVE CreatedDesc(_)
CreatedDesc(S) ==
    IF S = {} THEN {<<>>}
    ELSE UNION {{<<c>> \o r : r \in CreatedDesc(S \ {c})} :
                c \in {x \in S : \A y \in S : comments[x].created >= comments[y].created}}

\* A plausible slip: the comments sorted oldest first.
RECURSIVE CreatedAsc(_)
CreatedAsc(S) ==
    IF S = {} THEN {<<>>}
    ELSE UNION {{<<c>> \o r : r \in CreatedAsc(S \ {c})} :
                c \in {x \in S : \A y \in S : comments[x].created <= comments[y].created}}

CommentsCursorAsc(e) == CreatedAsc({c \in DOMAIN comments : comments[c].media_entry = e})

\* get_comments' query: MediaComment.find({'media_entry': self._id}).sort('created', DESCENDING)
CommentsCursor(e) == CreatedDesc({c \in DOMAIN comments : comments[c].media_entry = e})

\* ------------------------------------------------------- MediaEntry methods
\* A plausible slip: the slug is passed whenever the key is there, empty or not.
MediaParamAnySlug(e) == IF obj[e].hasSlug THEN obj[e].slug ELSE unicode(e)

\* url_for_self's media parameter: self.get('slug') is falsy when the slug is
\* absent or empty
MediaParam(e) ==
    IF obj[e].hasSlug /\ obj[e].slug # <<>> THEN obj[e].slug ELSE unicode(e)

\* A plausible slip: a missing uploader is passed on as an empty user name.
UrlgenSilent(op, e, up, media, target) ==
    [Call(op, e) EXCEPT !.kind = "url", !.user = up.username, !.media = media,
                        !.target = target]

\* urlgen(route, user=uploader['username'], media=...): subscripting the None
\* of a missing uploader raises TypeError before urlgen is called
Urlgen(op, e, up, media, target) ==
    IF up.found
    THEN [Call(op, e) EXCEPT !.kind = "url", !.user = up.username, !.media = media,
                             !.target = target]
    ELSE [Call(op, e) EXCEPT !.kind = "error"]

url_for_self(e) ==
    /\ e \in DOMAIN obj
    /\ last' = Urlgen("url_for_self", e, uploader(e), MediaParam(e), e)
    /\ UNCHANGED <<users, obj, db, comments, media_map, fetch_order>>

url_to_prev(e) ==
    /\ e \in DOMAIN obj
    /\ LET cursor == PrevCursor(e) IN
         last' = IF Len(cursor) > 0
                 THEN Urlgen("url_to_prev", e, uploader(e), db[cursor[1]].slug, cursor[1])
                 ELSE Call("url_to_prev", e)
    /\ UNCHANGED <<users, obj, db, comments, media_map, fetch_order>>

url_to_next(e) ==
    /\ e \in DOMAIN obj
    /\ LET cursor == NextCursor(e) IN
         last' = IF Len(cursor) > 0
                 THEN Urlgen("url_to_next", e, uploader(e), db[cursor[1]].slug, cursor[1])
                 ELSE Call("url_to_next", e)
    /\ UNCHANGED <<users, obj, db, comments, media_map, fetch_order>>

get_comments(e) ==
    /\ e \in DOMAIN obj
    /\ \E rows \in CommentsCursor(e) :
         last' = [Call("get_comments", e) EXCEPT !.kind = "rows", !.rows = rows]
    /\ UNCHANGED <<users, obj, db, comments, media_map, fetch_order>>

\* The first size of order, from position i on, that is a key of the map
RECURSIVE FirstPresent(_, _, _)
FirstPresent(order, i, keys) ==
    IF i > Len(order) THEN ""
    ELSE IF order[i] \in keys THEN order[i]
    ELSE FirstPresent(order, i + 1, keys)

DISPLAY_IMAGE_FETCHING_ORDER == <<"medium", "original", "thumb">>

\* get_display_media(media_map, fetch_order): the loop runs over
\* DISPLAY_IMAGE_FETCHING_ORDER and returns media_map[media_size] alone
get_display_media ==
    /\ LET media_sizes == DOMAIN media_map
           media_size == FirstPresent(DISPLAY_IMAGE_FETCHING_ORDER, 1, media_sizes)
       IN  last' = IF media_size # ""
                   THEN [Call("get_display_media", 0) EXCEPT
                           !.kind = "path", !.media = media_map[media_size]]
                   ELSE Call("get_display_media", 0)
    /\ UNCHANGED <<users, obj, db, comments, media_map, fetch_order>>

\* ----------------------------------------------------- MediaComment methods
\* A plausible slip: a comment whose entry is gone is an error.
FindEntryStrict(c) ==
    IF comments[c].media_entry \in DOMAIN db
    THEN [Call("media_entry", c) EXCEPT !.kind = "doc", !.target = comments[c].media_entry]
    ELSE [Call("media_entry", c) EXCEPT !.kind = "error"]

\* MediaEntry.find_one({'_id': self['media_entry']})
FindEntry(c) ==
    IF comments[c].media_entry \in DOMAIN db
    THEN [Call("media_entry", c) EXCEPT !.kind = "doc", !.target = comments[c].media_entry]
    ELSE Call("media_entry", c)

media_entry(c) ==
    /\ c \in DOMAIN comments
    /\ last' = FindEntry(c)
    /\ UNCHANGED <<users, obj, db, comments, media_map, fetch_order>>

author(c) ==
    /\ c \in DOMAIN comments
    /\ LET u == FindUser(comments[c].author) IN
         last' = IF u.found
                 THEN [Call("author", c) EXCEPT !.kind = "doc", !.target = u._id,
                                                 !.user = u.username]
                 ELSE Call("author", c)
    /\ UNCHANGED <<users, obj, db, comments, media_map, fetch_order>>


\* ----------------------------------------------------------- specifications
Empty == <<>>

\* The store after the entries 1..n were submitted in turn by user 1.
RECURSIVE Submitted(_)
Submitted(n) ==
    IF n = 0 THEN Empty
    ELSE LET before == Submitted(n - 1) IN
         Stored(before, n, GenerateSlugDoc(NewDoc(1, PlainTitle), n, before))

Path(l) == <<"media_entries", l>>
Maps == {[l \in K |-> Path(l)] : K \in SUBSET Labels}
Orders == {s \in UNION {[1..n -> Labels] : n \in 0..MaxOrder} :
             \A i, j \in DOMAIN s : s[i] = s[j] => i = j}

NoInputs == media_map = Empty /\ fetch_order = Empty

\* Slugs: one user, entries built, slugged and saved in separate steps.
Init ==
    /\ users = {1}
    /\ obj = Empty /\ db = Empty /\ comments = Empty
    /\ NoInputs /\ last = NoCall

Next ==
    \/ \E e \in EntryIds, u \in UserIds, t \in Titles : NewEntry(e, u, t)
    \/ \E e \in EntryIds : generate_slug(e)
    \/ \E e \in EntryIds : Save(e)

Spec == Init /\ [][Next]_vars

\* Navigation: every user registered, entries submitted, processed and deleted.
InitNav ==
    /\ users = UserIds
    /\ obj = Empty /\ db = Empty /\ comments = Empty
    /\ NoInputs /\ last = NoCall

NextNav ==
    \/ \E e \in NavEntryIds, u \in UserIds : SubmitEntry(e, u, PlainTitle)
    \/ \E e \in NavEntryIds : Process(e)
    \/ \E e \in NavEntryIds : DeleteEntry(e)
    \/ \E e \in NavEntryIds : url_to_prev(e)
    \/ \E e \in NavEntryIds : url_to_next(e)

SpecNav == InitNav /\ [][NextNav]_vars

\* URLs: entries with and without a slug, users deleted under their entries.
NextUrl ==
    \/ \E e \in EntryIds, u \in UserIds, t \in UrlTitles : NewEntry(e, u, t)
    \/ \E e \in EntryIds, u \in UserIds, t \in UrlTitles : SubmitEntry(e, u, t)
    \/ \E e \in EntryIds : Process(e)
    \/ \E u \in UserIds : DeleteUser(u)
    \/ \E e \in EntryIds : url_for_self(e)
    \/ \E e \in EntryIds : url_to_prev(e)
    \/ \E e \in EntryIds : url_to_next(e)

SpecUrl == InitNav /\ [][NextUrl]_vars

\* Comment threads: the entries are there, comments come and go.
InitComments ==
    /\ users = {1}
    /\ obj = Submitted(MaxEntries) /\ db = Submitted(MaxEntries)
    /\ comments = Empty
    /\ NoInputs /\ last = NoCall

NextComments ==
    \/ \E c \in CommentIds, e \in EntryIds, a \in UserIds, t \in Times :
         AddComment(c, e, a, t)
    \/ \E c \in CommentIds : RemoveComment(c)
    \/ \E e \in EntryIds : get_comments(e)

SpecComments == InitComments /\ [][NextComments]_vars

\* References of comments: users and entries are deleted under the comments.
InitRefs ==
    /\ users = UserIds
    /\ obj = Submitted(MaxEntries) /\ db = Submitted(MaxEntries)
    /\ comments = Empty
    /\ NoInputs /\ last = NoCall

NextRefs ==
    \/ \E c \in RefCommentIds, e \in EntryIds, a \in UserIds : AddComment(c, e, a, 1)
    \/ \E e \in EntryIds : DeleteEntry(e)
    \/ \E u \in UserIds : DeleteUser(u)
    \/ \E c \in RefCommentIds : media_entry(c)
    \/ \E c \in RefCommentIds : author(c)

SpecRefs == InitRefs /\ [][NextRefs]_vars

\* get_display_media on every map and every order.
InitDisplay ==
    /\ users = {}
    /\ obj = Empty /\ db = Empty /\ comments = Empty
    /\ media_map \in Maps /\ fetch_order \in Orders
    /\ last = NoCall

NextDisplay == get_display_media

SpecDisplay == InitDisplay /\ [][NextDisplay]_vars


\* ------------------------------------------------------------------- claims
\* The processed stored entries of e's uploader, e itself left out
Gallery(e) ==
    {d \in DOMAIN db : d # e /\ db[d].uploader = obj[e].uploader /\ db[d].state = "processed"}

\* C1: no two persisted MediaEntry records carry the same slug.
SlugsUnique ==
    \A a, b \in DOMAIN db : a # b => db[a].slug # db[b].slug

\* C2: get_display_media returns the first (size-label, path) pair of the
\* caller's fetch_order whose label is a key of media_map, and nothing when no
\* label of fetch_order is a key.
DisplayFollowsFetchOrder ==
    last.op = "get_display_media" =>
      LET present == {i \in DOMAIN fetch_order : fetch_order[i] \in DOMAIN media_map} IN
        IF present = {}
        THEN last.kind = "none"
        ELSE LET first == CHOOSE i \in present : \A j \in present : i <= j IN
               /\ last.kind = "pair"
               /\ last.label = fetch_order[first]
               /\ last.media = media_map[fetch_order[first]]

\* C3: url_to_prev resolves to the smallest id above the entry's own, and
\* url_to_next to the largest id below it, among the processed stored entries of
\* the same uploader; each returns nothing when there is no such entry.
NavigationSelects ==
    /\ last.op = "url_to_prev" =>
         LET above == {d \in Gallery(last.self) : d > last.self} IN
           /\ above = {} => last.kind = "none"
           /\ above # {} /\ obj[last.self].uploader \in users =>
                /\ last.kind = "url"
                /\ last.target \in above
                /\ \A d \in above : last.target <= d
                /\ last.media = db[last.target].slug
    /\ last.op = "url_to_next" =>
         LET below == {d \in Gallery(last.self) : d < last.self} IN
           /\ below = {} => last.kind = "none"
           /\ below # {} /\ obj[last.self].uploader \in users =>
                /\ last.kind = "url"
                /\ last.target \in below
                /\ \A d \in below : last.target >= d
                /\ last.media = db[last.target].slug

\* url_to_prev passed over a stored entry lying between the two ids
NavigationSkips ==
    /\ last.op = "url_to_prev"
    /\ last.kind = "url"
    /\ \E d \in DOMAIN db : last.self < d /\ d < last.target

\* C4: after generate_slug the slug is slugify(title) when no stored entry has
\* that slug, and "<own id>-<slugify(title)>" when some stored entry has it.
GenerateSlugResult ==
    last.op = "generate_slug" =>
      LET e == last.self
          s == slugify(obj[e].title)
          taken == \E d \in DOMAIN db : db[d].slug = s
      IN  /\ obj[e].hasSlug
          /\ ~taken => obj[e].slug = s
          /\ taken => obj[e].slug = <<DigitChar[e], "-">> \o s

\* generate_slug met another entry's slug and prefixed its own id
SlugDisambiguated ==
    /\ last.op = "generate_slug"
    /\ \E d \in DOMAIN db : d # last.self /\ db[d].slug = slugify(obj[last.self].title)
    /\ obj[last.self].slug = <<DigitChar[last.self], "-">> \o slugify(obj[last.self].title)
    /\ obj[last.self].title # obj[last.self].slug

\* C5: generate_slug on an entry persisted with slug slugify(title), when no
\* other stored entry has that slug, leaves the slug slugify(title).
RegenerateKeepsSlug ==
    last.op = "generate_slug" =>
      LET e == last.self
          s == slugify(obj[e].title)
      IN  (/\ e \in DOMAIN db
           /\ db[e].slug = s
           /\ \A d \in DOMAIN db : d # e => db[d].slug # s)
          => obj[e].slug = s

\* C6: get_comments returns exactly the stored comments of the entry, each
\* once, newest first.
CommentsNewestFirst ==
    last.op = "get_comments" =>
      /\ last.kind = "rows"
      /\ {last.rows[i] : i \in DOMAIN last.rows}
           = {c \in DOMAIN comments : comments[c].media_entry = last.self}
      /\ \A i, j \in DOMAIN last.rows : i # j => last.rows[i] # last.rows[j]
      /\ \A i, j \in DOMAIN last.rows :
           i < j => comments[last.rows[i]].created >= comments[last.rows[j]].created

\* get_comments returned two comments of different age, against the order of
\* their ids, and left out a comment of another entry
ThreadReordered ==
    /\ last.op = "get_comments"
    /\ Len(last.rows) = 2
    /\ last.rows[1] < last.rows[2]
    /\ comments[last.rows[1]].created > comments[last.rows[2]].created
    /\ \E c \in DOMAIN comments : comments[c].media_entry # last.self

\* C7: author() and media_entry() return the stored record the comment refers
\* to, and absence when there is none; a deletion of a user or of an entry
\* leaves the comments as they are.
WeakReferences ==
    [][/\ last'.op = "author" =>
            LET a == comments'[last'.self].author IN
              IF a \in users'
              THEN last'.kind = "doc" /\ last'.target = a /\ last'.user = UserName(a)
              ELSE last'.kind = "none"
       /\ last'.op = "media_entry" =>
            LET m == comments'[last'.self].media_entry IN
              IF m \in DOMAIN db'
              THEN last'.kind = "doc" /\ last'.target = m
              ELSE last'.kind = "none"
       /\ (users' # users \/ DOMAIN db' # DOMAIN db) => comments' = comments]_vars

\* a comment outlived both its author and its entry, and media_entry() said so
CommentOutlivesBoth ==
    /\ last.op = "media_entry"
    /\ last.kind = "none"
    /\ comments[last.self].author \notin users

\* C8: url_for_self on an entry whose uploader exists passes the uploader's
\* username, and as media the slug when it is present and not empty, the
\* stringified id otherwise; never an empty media.
UrlForSelfMedia ==
    last.op = "url_for_self" /\ obj[last.self].uploader \in users =>
      LET e == last.self IN
        /\ last.kind = "url"
        /\ last.user = UserName(obj[e].uploader)
        /\ obj[e].hasSlug /\ Len(obj[e].slug) > 0 => last.media = obj[e].slug
        /\ ~obj[e].hasSlug \/ Len(obj[e].slug) = 0 => last.media = <<DigitChar[e]>>
        /\ Len(last.media) > 0

\* url_for_self on an entry whose slug was generated empty
EmptySlugUsesId ==
    /\ last.op = "url_for_self"
    /\ last.kind = "url"
    /\ obj[last.self].hasSlug
    /\ obj[last.self].slug = <<>>
    /\ last.self \in DOMAIN db

\* C9: url_for_self, and url_to_prev / url_to_next with a neighbour, on an
\* entry whose uploader is no stored user end in an error.
DanglingUploaderIsError ==
    LET e == last.self IN
      /\ last.op = "url_for_self" /\ obj[e].uploader \notin users
           => last.kind = "error"
      /\ (/\ last.op = "url_to_prev" /\ obj[e].uploader \notin users
          /\ \E d \in Gallery(e) : d > e)
           => last.kind = "error"
      /\ (/\ last.op = "url_to_next" /\ obj[e].uploader \notin users
          /\ \E d \in Gallery(e) : d < e)
           => last.kind = "error"

\* url_to_next found a neighbour and then no uploader
NeighbourWithoutUploader ==
    /\ last.op = "url_to_next"
    /\ last.kind = "error"
    /\ \E d \in Gallery(last.self) : d < last.self

\* C10: for stored processed entries A and B of one uploader, url_to_prev from
\* A resolves to B exactly when url_to_next from B resolves to A.
PrevNextInverse ==
    \A A, B \in DOMAIN db :
      (/\ db[A].uploader = db[B].uploader
       /\ db[A].state = "processed"
       /\ db[B].state = "processed")
      => (PrevCursor(A) = <<B>> <=> NextCursor(B) = <<A>>)

\* url_to_prev from a processed entry passed over an unprocessed entry of the
\* same uploader, and url_to_next leads back
PrevNextPair ==
    /\ last.op = "url_to_prev"
    /\ last.kind = "url"
    /\ last.self \in DOMAIN db
    /\ db[last.self].state = "processed"
    /\ NextCursor(last.target) = <<last.self>>
    /\ \E d \in DOMAIN db : /\ last.self < d /\ d < last.target
                            /\ db[d].uploader = db[last.self].uploader

====
